---- MODULE Spec2Model ----
(***************************************************************************)
(* Model of app.py: the monthly installment (dollar-cost-averaging)        *)
(* simulation, the aggregation of the per-instrument results, the         *)
(* principal series and the final summary table.                          *)
(*                                                                         *)
(* Numbers: Python floats are modelled by exact rationals <<n, d>> with   *)
(* d > 0 and gcd(n, d) = 1, so float rounding is left out.  Dates are     *)
(* integers yyyymmdd.  A pandas Series is a function from its index (a    *)
(* set of dates, which pandas keeps in date order) to its values.         *)
(*                                                                         *)
(* float64 inf, -inf and NaN are 1/0, -1/0 and 0/0.                       *)
(*                                                                         *)
(* Four specifications:                                                    *)
(*   SpecSim           simulate_monthly_investment stepped through one    *)
(*                     price series, entry by entry;                      *)
(*   SpecSimArtifacts  the same steps on data with artifacts: closes that *)
(*                     are zero or negative, USD/KRW quotes that are zero;*)
(*   Spec              the script runs of the main block, each simulation *)
(*                     one call, with the st.cache_data stores kept       *)
(*                     across reruns;                                      *)
(*   SpecSummary       display_final_summary_table on its own.            *)
(* The price and FX provider (FinanceDataReader) is the environment: a    *)
(* lookup raises, or returns closes on some trading dates, possibly none. *)
(* Outside SpecSimArtifacts closing prices and FX quotes are positive.    *)
(***************************************************************************)
EXTENDS Integers, Sequences, FiniteSets, TLC

VARIABLES
    \* simulate_monthly_investment: arguments, provider data and locals
    code, close, monthly_amount, rate_series,
    processed,      \* number of entries of close the loop has handled
    shares, last_month, cumulative,
    ret             \* Running, or the returned Series

VARIABLES
    \* the provider: for each code and for USD/KRW, whether the lookup succeeds
    \* and on which dates it has a close
    market, fx_market,
    \* widgets: the three code inputs, the two date inputs, the amount input
    code_inputs, start_input, end_input, monthly_amount_krw,
    \* the st.cache_data stores of get_usd_krw_rate and simulate_monthly_investment
    rate_cache, sim_cache,
    \* the main block of one script run
    pc, runs, start_date, end_date, codes, usd_krw_rate_series,
    next_code,      \* position of the loop `for c in codes`
    dfs, data, cumulative_principal, monthly_indices, summary,
    warnings,       \* what st.warning has shown in this run
    calls,          \* every call of simulate_monthly_investment so far and its result
    previous        \* what the run before this one requested and showed

simVars == <<code, close, monthly_amount, rate_series, processed, shares,
             last_month, cumulative, ret>>

envVars == <<market, fx_market>>

inputVars == <<code_inputs, start_input, end_input, monthly_amount_krw>>

cacheVars == <<rate_cache, sim_cache, calls, previous>>

runVars == <<pc, runs, start_date, end_date, codes, usd_krw_rate_series, next_code,
             dfs, data, cumulative_principal, monthly_indices, summary, warnings>>

vars == <<simVars, envVars, inputVars, cacheVars, runVars>>

\* ---------------------------------------------------------------- bounds
\* number of trading dates of the modelled calendar
NumDates == 4
\* number of script runs (the first run plus the reruns after a widget change)
MaxRuns == 2

\* ------------------------------------------------------------- arithmetic
Abs(x) == IF x < 0 THEN -x ELSE x

RECURSIVE GCD(_, _)
GCD(a, b) == IF b = 0 THEN a ELSE GCD(b, a % b)

\* the rational n/d in lowest terms, d > 0 (d # 0 is the caller's duty)
Norm(n, d) ==
    LET g == GCD(Abs(n), Abs(d))
        s == IF d < 0 THEN -1 ELSE 1
    IN  <<(s * n) \div g, (s * d) \div g>>

R(n) == <<n, 1>>

RAdd(a, b) ==
    LET g == GCD(a[2], b[2])
        l == (a[2] \div g) * b[2]
    IN  Norm(a[1] * (l \div a[2]) + b[1] * (l \div b[2]), l)

RNeg(a) == <<-a[1], a[2]>>

RSub(a, b) == RAdd(a, RNeg(b))

RMul(a, b) ==
    LET g1 == GCD(Abs(a[1]), b[2])
        g2 == GCD(Abs(b[1]), a[2])
    IN  Norm((a[1] \div g1) * (b[1] \div g2), (a[2] \div g2) * (b[2] \div g1))

\* a / b for b # 0
RDiv(a, b) == RMul(a, Norm(b[2], b[1]))

RLt(a, b) == RSub(a, b)[1] < 0

RLe(a, b) == RSub(a, b)[1] <= 0

\* float64 values that are not rationals: inf is 1/0, -inf is -1/0 and NaN is 0/0
Inf == <<1, 0>>

NegInf == <<-1, 0>>

Finite(x) == x[2] # 0

Sign(x) == IF x[1] > 0 THEN 1 ELSE IF x[1] < 0 THEN -1 ELSE 0

\* a + b of float64
FAdd(a, b) ==
    IF a = <<0, 0>> \/ b = <<0, 0>> THEN <<0, 0>>
    ELSE IF ~Finite(a) THEN (IF ~Finite(b) /\ b # a THEN <<0, 0>> ELSE a)
    ELSE IF ~Finite(b) THEN b
    ELSE RAdd(a, b)

\* a * b of float64: inf * 0 is NaN
FMul(a, b) ==
    IF a = <<0, 0>> \/ b = <<0, 0>> THEN <<0, 0>>
    ELSE IF ~Finite(a) \/ ~Finite(b) THEN <<Sign(a) * Sign(b), 0>>
    ELSE RMul(a, b)

\* a / b with a numpy.float64 operand: a division by zero gives inf, -inf or NaN
\* (and a RuntimeWarning), it does not raise
FDiv(a, b) ==
    IF a = <<0, 0>> \/ b = <<0, 0>> THEN <<0, 0>>
    ELSE IF ~Finite(a) THEN (IF ~Finite(b) THEN <<0, 0>>
                             ELSE IF Sign(b) < 0 THEN <<-Sign(a), 0>> ELSE a)
    ELSE IF ~Finite(b) THEN R(0)
    ELSE IF b = R(0) THEN <<Sign(a), 0>>
    ELSE RDiv(a, b)

\* ------------------------------------------------------------------ dates
\* date.month of a date yyyymmdd
Month(d) == (d \div 100) % 100

\* the calendar month (year and month) of a date: dt.to_period('M')
YearMonth(d) == d \div 100

\* the trading dates the price provider knows, in date order
CalendarSeq == <<20220103, 20220104, 20220201, 20230102, 20230103, 20230301>>

Calendar == {CalendarSeq[k] : k \in 1..(IF NumDates < Len(CalendarSeq) THEN NumDates ELSE Len(CalendarSeq))}

\* ----------------------------------------------------------------- series
\* NaN is the rational 0/0; None is a value no Series equals
NaN == <<0, 0>>

None == <<"None">>

Running == <<"running">>

EmptySeries == [d \in {} |-> 0]

\* the index of a Series as the sequence pandas iterates: increasing dates
RECURSIVE SortedSeq(_)
SortedSeq(S) ==
    IF S = {} THEN <<>>
    ELSE LET m == CHOOSE x \in S : \A y \in S : x <= y
         IN  <<m>> \o SortedSeq(S \ {m})

\* instrument codes are the sequences of their characters; <<>> is an empty input
Samsung == <<"0", "0", "5", "9", "3", "0">>

QQQ == <<"Q", "Q", "Q">>

AAPL == <<"A", "A", "P", "L">>

Digits == {"0", "1", "2", "3", "4", "5", "6", "7", "8", "9"}

\* code.isdigit() and len(code) == 6
is_korean_stock(c) ==
    /\ \A j \in 1..Len(c) : c[j] \in Digits
    /\ Len(c) = 6

default_rate == 1300

\* aligned_rate without method='ffill': a date the FX series lacks gets the default
aligned_rate_NoForwardFill(rates, index) ==
    IF rates # <<"None">> /\ DOMAIN rates # {}
    THEN [d \in index |-> IF d \in DOMAIN rates THEN rates[d] ELSE 1300]
    ELSE [d \in index |-> 1300]

\* rate_series.reindex(close.index, method='ffill').fillna(default_rate), or the
\* constant default when rate_series is None or empty
aligned_rate(rates, index) ==
    IF rates # None /\ DOMAIN rates # {}
    THEN [d \in index |->
            LET before == {r \in DOMAIN rates : r <= d}
            IN  IF before = {} THEN default_rate
                ELSE rates[CHOOSE r \in before : \A q \in before : q <= r]]
    ELSE [d \in index |-> default_rate]

\* "월별 첫 거래일" test of the simulation loop
NewMonth(current_month, last) == current_month # last

\* LoopBody with the valuation of a foreign position left in USD
LoopBody_ValueWithoutFx(st, date, price, is_kr_stock, amount, rates) ==
    LET buy == NewMonth(Month(date), st.last_month)
        investment_amount_local ==
            IF is_kr_stock THEN R(amount) ELSE FDiv(R(amount), R(rates[date]))
        shares1 == IF buy THEN FAdd(st.shares, FDiv(investment_amount_local, R(price)))
                   ELSE st.shares
    IN  IF buy /\ is_kr_stock /\ price = 0 THEN [st EXCEPT !.raised = TRUE]
        ELSE [shares |-> shares1,
              last_month |-> IF buy THEN Month(date) ELSE st.last_month,
              cumulative |-> [st.cumulative EXCEPT ![date] = FMul(shares1, R(price))],
              raised |-> FALSE]

\* one iteration of the loop `for date, price in close.items()`; st holds the
\* locals shares, last_month and cumulative, and raised tells that an exception
\* left the loop.  monthly_amount and price are Python numbers, the rate read
\* from aligned_rate is a numpy.float64: a domestic purchase at the price 0
\* raises ZeroDivisionError, a foreign one computes with inf and NaN.
LoopBody(st, date, price, is_kr_stock, amount, rates) ==
    LET current_month == Month(date)
        exchange_rate == IF is_kr_stock THEN R(1) ELSE R(rates[date])
        investment_amount_local ==
            IF is_kr_stock THEN R(amount)
            ELSE FDiv(R(amount), exchange_rate)
        buy == NewMonth(current_month, st.last_month)
        shares1 == IF buy THEN FAdd(st.shares, FDiv(investment_amount_local, R(price)))
                   ELSE st.shares
        value == IF is_kr_stock THEN FMul(shares1, R(price))
                 ELSE FMul(FMul(shares1, R(price)), R(rates[date]))
    IN  IF buy /\ is_kr_stock /\ price = 0 THEN [st EXCEPT !.raised = TRUE]
        ELSE [shares |-> shares1,
              last_month |-> IF buy THEN Month(date) ELSE st.last_month,
              cumulative |-> [st.cumulative EXCEPT ![date] = value],
              raised |-> FALSE]

\* the locals before the loop
LoopStart(index) ==
    [shares |-> R(0), last_month |-> -1, cumulative |-> [d \in index |-> R(0)],
     raised |-> FALSE]

\* cumulative.cumsum() over the first k entries, kept as its whole part and its
\* fractional part so that the sum of many large values stays exact; cumsum
\* skips the NaN entries, and the infinite ones are looked at in CumSumNonZero
RECURSIVE SumWhole(_, _, _)
SumWhole(s, order, k) ==
    IF k = 0 THEN 0
    ELSE SumWhole(s, order, k - 1)
         + (IF Finite(s[order[k]]) THEN s[order[k]][1] \div s[order[k]][2] ELSE 0)

RECURSIVE SumFrac(_, _, _)
SumFrac(s, order, k) ==
    IF k = 0 THEN R(0)
    ELSE RAdd(SumFrac(s, order, k - 1),
              IF Finite(s[order[k]])
              THEN Norm(s[order[k]][1] % s[order[k]][2], s[order[k]][2])
              ELSE R(0))

\* cumulative.cumsum() != 0 at the k-th entry: the running sum is NaN at a NaN
\* entry, and inf, -inf or NaN once an infinite entry has been added
CumSumNonZero(s, order, k) ==
    LET f == SumFrac(s, order, k)
    IN  \/ \E j \in 1..k : s[order[j]] \in {Inf, NegInf}
        \/ s[order[k]] = <<0, 0>>
        \/ ~(f[2] = 1 /\ SumWhole(s, order, k) + f[1] = 0)

\* cumulative[cumulative.cumsum() != 0]
Trim(s) ==
    LET order == SortedSeq(DOMAIN s)
        keep == {order[k] : k \in {j \in 1..Len(order) : CumSumNonZero(s, order, j)}}
    IN  [d \in keep |-> s[d]]

\* the whole loop over the first k entries of close; an exception ends it
RECURSIVE LoopUpTo(_, _, _, _, _, _)
LoopUpTo(cl, order, k, is_kr_stock, amount, rates) ==
    IF k = 0 THEN LoopStart(DOMAIN cl)
    ELSE LET before == LoopUpTo(cl, order, k - 1, is_kr_stock, amount, rates)
         IN  IF before.raised THEN before
             ELSE LoopBody(before, order[k], cl[order[k]], is_kr_stock, amount, rates)

\* the try block of simulate_monthly_investment on the frame the provider
\* returned: the trimmed Series, or None from the except branch
SimulateSeries(c, cl, amount, rates) ==
    LET order == SortedSeq(DOMAIN cl)
        st == LoopUpTo(cl, order, Len(order), is_korean_stock(c), amount,
                       aligned_rate(rates, DOMAIN cl))
    IN  IF st.raised THEN <<"None">> ELSE Trim(st.cumulative)

\* ------------------------------------------------------------ provider
\* a lookup that fails (unknown code, transport error)
Unavailable == [ok |-> FALSE, dates |-> {}]

Listed(S) == [ok |-> TRUE, dates |-> S]

\* USD/KRW close the provider quotes on a date
FxQuote(d) == IF d < 20220201 THEN 1250 ELSE 1200

\* closing price the provider quotes on a trading date
QuotedPrice(d) ==
    IF d = 20220104 THEN 110 ELSE IF d = 20220201 THEN 120 ELSE 100

\* fdr.DataReader(code, start, end)['Close'] of a lookup that succeeds
DataReader(listing, start, end) ==
    [d \in {x \in listing.dates : start <= x /\ x <= end} |-> QuotedPrice(d)]

\* the body of get_usd_krw_rate: the USD/KRW closes, or the empty Series (and a
\* warning) when the lookup fails
get_usd_krw_rate(listing, start, end) ==
    IF listing.ok
    THEN [d \in {x \in listing.dates : start <= x /\ x <= end} |-> FxQuote(d)]
    ELSE EmptySeries

\* the body of simulate_monthly_investment: None when the lookup raises
simulate_monthly_investment(listing, c, start, end, amount, rates) ==
    IF listing.ok
    THEN SimulateSeries(c, DataReader(listing, start, end), amount, rates)
    ELSE None

\* the key st.cache_data derives from the arguments of simulate_monthly_investment
CacheKey_WithoutAmount(c, start, end, amount, rates) == <<c, start, end, 0, rates>>

CacheKey(c, start, end, amount, rates) == <<c, start, end, amount, rates>>

\* ------------------------------------------------------- aggregation
\* `if series is not None: dfs.append(series)` with the loop gone wrong: a failed
\* instrument discards what was collected before it
Collect_DropsEarlier(collected, c, series) ==
    IF series # None THEN Append(collected, [name |-> c, s |-> series]) ELSE <<>>

\* `if series is not None: dfs.append(series)`
Collect(collected, c, series) ==
    IF series # None THEN Append(collected, [name |-> c, s |-> series]) ELSE collected

Names(collected) == [j \in 1..Len(collected) |-> collected[j].name]

\* pd.concat(dfs, axis=1): the sorted union of the indexes, one column per Series
\* (the codes requested in one run are distinct)
Concat(collected) ==
    LET index == UNION {DOMAIN collected[j].s : j \in 1..Len(collected)}
    IN  [index |-> index,
         columns |-> Names(collected),
         at |-> [n \in {collected[j].name : j \in 1..Len(collected)} |->
                    LET own == (CHOOSE j \in 1..Len(collected) : collected[j].name = n)
                    IN  [d \in index |->
                            IF d \in DOMAIN collected[own].s THEN collected[own].s[d]
                            ELSE NaN]]]

\* ffill() with the gaps filled by zero instead
FFillColumn_Zero(col) ==
    [d \in DOMAIN col |-> IF col[d] # NaN THEN col[d] ELSE R(0)]

\* ffill() of one column: a NaN takes the last valid value above it, if any
FFillColumn(col) ==
    [d \in DOMAIN col |->
        LET valid == {e \in DOMAIN col : e <= d /\ col[e] # NaN}
        IN  IF valid = {} THEN NaN
            ELSE col[CHOOSE e \in valid : \A q \in valid : q <= e]]

FFill(t) == [t EXCEPT !.at = [n \in DOMAIN t.at |-> FFillColumn(t.at[n])]]

\* dropna(how='all'): drop the rows in which every column is NaN
DropAllNaN(t) ==
    LET keep == {d \in t.index : \E n \in DOMAIN t.at : t.at[n][d] # NaN}
    IN  [index |-> keep,
         columns |-> t.columns,
         at |-> [n \in DOMAIN t.at |-> [d \in keep |-> t.at[n][d]]]]

\* data = pd.concat(dfs, axis=1).ffill().dropna(how='all')
Aggregate(collected) == DropAllNaN(FFill(Concat(collected)))

NoTable == [index |-> {}, columns |-> <<>>, at |-> <<>>]

\* ------------------------------------------------- principal series
\* the month test of the principal loop
PrincipalNewMonth(current_month, last) == current_month # last

\* the loop `for date in data.index` over the first k dates
RECURSIVE PrincipalLoop(_, _, _)
PrincipalLoop(order, k, amount) ==
    IF k = 0 THEN [total |-> 0, last_month |-> -1, series |-> EmptySeries]
    ELSE LET before == PrincipalLoop(order, k - 1, amount)
             date == order[k]
             step == PrincipalNewMonth(Month(date), before.last_month)
             total == IF step THEN before.total + amount ELSE before.total
         IN  [total |-> total,
              last_month |-> IF step THEN Month(date) ELSE before.last_month,
              series |-> (date :> R(total)) @@ before.series]

PrincipalSeries(index, amount) ==
    LET order == SortedSeq(index)
    IN  PrincipalLoop(order, Len(order), amount).series

PrincipalColumn == <<"principal">>

\* data['총 적립 원금'] = cumulative_principal
WithPrincipal(t, series) ==
    [index |-> t.index,
     columns |-> Append(t.columns, PrincipalColumn),
     at |-> (PrincipalColumn :> series) @@ t.at]

\* ------------------------------------------------------------- chart
\* data.groupby('YearMonth').apply(lambda x: x.index[0]).tolist(), then the last
\* date when it is not among them
MonthlyIndices(index) ==
    LET firsts == {d \in index : \A e \in index : e < d => YearMonth(e) # YearMonth(d)}
        last == CHOOSE d \in index : \A e \in index : e <= d
    IN  SortedSeq(firsts) \o (IF last \in firsts THEN <<>> ELSE <<last>>)

\* ----------------------------------------------------------- summary
\* round(x), and the rounding of the 'f' format: the nearest integer, a tie
\* going to the even one
RoundHalfEven(x) ==
    LET q == x[1] \div x[2]
        twice == 2 * (x[1] - q * x[2])
    IN  IF twice < x[2] THEN q
        ELSE IF twice > x[2] THEN q + 1
        ELSE IF q % 2 = 0 THEN q ELSE q + 1

\* f"{x:,.0f}" as the integer it shows, f"{x:,.2f}%" as the hundredths it shows
\* ("nan" for NaN)
Fmt0(x) == IF x = NaN THEN NaN ELSE R(RoundHalfEven(x))

Fmt2(x) == IF x = NaN THEN NaN ELSE R(RoundHalfEven(RMul(x, R(100))))

annual_interest_rate == <<3, 100>>

monthly_interest_rate == RDiv(annual_interest_rate, R(12))

\* the deposit loop with every contribution earning one period too many
RECURSIVE DepositValue_OnePeriodMore(_, _, _)
DepositValue_OnePeriodMore(num_months, k, amount) ==
    IF k = 0 THEN R(0)
    ELSE RAdd(DepositValue_OnePeriodMore(num_months, k - 1, amount),
              RMul(R(amount), RAdd(R(1), RMul(monthly_interest_rate, R(num_months - k + 1)))))

\* deposit_final_value after the first k rounds of `for k in range(1, num_months + 1)`
RECURSIVE DepositValue(_, _, _)
DepositValue(num_months, k, amount) ==
    IF k = 0 THEN R(0)
    ELSE LET interest_period == num_months - k
             single_deposit_value ==
                 RMul(R(amount), RAdd(R(1), RMul(monthly_interest_rate, R(interest_period))))
         IN  RAdd(DepositValue(num_months, k - 1, amount), single_deposit_value)

\* return_rate with the guard on a zero principal left out: 0 / 0 is NaN
ReturnRate_Unguarded(profit_loss, total) ==
    IF total # R(0) THEN RMul(RDiv(profit_loss, total), R(100)) ELSE NaN

\* (profit_loss / total) * 100 if total > 0 else 0
ReturnRate(profit_loss, total) ==
    IF RLt(R(0), total) THEN RMul(RDiv(profit_loss, total), R(100)) ELSE R(0)

Row(name, principal, value, profit_loss, return_rate) ==
    [name |-> name, principal |-> principal, value |-> value,
     profit_loss |-> profit_loss, return_rate |-> return_rate,
     shown |-> [principal |-> Fmt0(principal), value |-> Fmt0(value),
                profit_loss |-> Fmt0(profit_loss), rate |-> Fmt2(return_rate)]]

DepositRow == <<"deposit">>

\* data[code].dropna(): the dates of a column that hold a value
ValidDates(col) == {d \in DOMAIN col : col[d] # NaN}

\* data[code].dropna().iloc[-1] with the first valid value taken instead
LastValid_First(col) ==
    col[CHOOSE d \in ValidDates(col) : \A e \in ValidDates(col) : d <= e]

\* data[code].dropna().iloc[-1]
LastValid(col) ==
    col[CHOOSE d \in ValidDates(col) : \A e \in ValidDates(col) : e <= d]

\* display_final_summary_table: the rows of the table it shows (none when it
\* returns early), or the IndexError of a column that holds no value
display_final_summary_table(t, principal_series, amount) ==
    LET order == SortedSeq(DOMAIN principal_series)
        valid_data_length == Cardinality(ValidDates(principal_series))
    IN  IF valid_data_length = 0 THEN [ok |-> TRUE, rows |-> <<>>]
        ELSE
        LET total_invested_principal == principal_series[order[valid_data_length]]
            num_months == RoundHalfEven(RDiv(total_invested_principal, R(amount)))
            principal_rows ==
                IF RLt(R(0), total_invested_principal)
                THEN <<Row(PrincipalColumn, total_invested_principal,
                           total_invested_principal, R(0), R(0))>>
                ELSE <<>>
            deposit_final_value == DepositValue(num_months, num_months, amount)
            deposit_profit_loss == RSub(deposit_final_value, total_invested_principal)
            deposit_rows ==
                IF num_months > 0
                THEN <<Row(DepositRow, total_invested_principal, deposit_final_value,
                           deposit_profit_loss,
                           ReturnRate(deposit_profit_loss, total_invested_principal))>>
                ELSE <<>>
            instruments == SelectSeq(t.columns, LAMBDA n : n # PrincipalColumn)
            instrument_rows ==
                [j \in 1..Len(instruments) |->
                    LET final_value == LastValid(t.at[instruments[j]])
                        profit_loss == RSub(final_value, total_invested_principal)
                    IN  Row(instruments[j], total_invested_principal, final_value,
                            profit_loss, ReturnRate(profit_loss, total_invested_principal))]
        IN  IF \E j \in 1..Len(instruments) : ValidDates(t.at[instruments[j]]) = {}
            THEN [ok |-> FALSE, rows |-> <<>>]
            ELSE [ok |-> TRUE, rows |-> principal_rows \o deposit_rows \o instrument_rows]

\* ------------------------------------------- simulate_monthly_investment
\* inputs of the simulation taken alone
Prices == {100, 110, 120}

Amounts == {1000, 500000}

SimCodes == {Samsung, QQQ}

AllClose == UNION {[S -> Prices] : S \in SUBSET Calendar}

FxIndexes == {Calendar, Calendar \ {CalendarSeq[1]}, {CalendarSeq[1]}, {CalendarSeq[2]}}

RateSeriesChoices ==
    {None, EmptySeries} \cup {[d \in S |-> FxQuote(d)] : S \in FxIndexes}

\* before the first rerun there is no earlier run
NoRun ==
    [pc |-> "none", codes |-> <<>>, start_date |-> 0, end_date |-> 0, amount |-> 0,
     data |-> NoTable, cumulative_principal |-> EmptySeries, summary |-> <<>>,
     warnings |-> <<>>]

\* the main block at rest while the simulation is looked at alone
MainIdle ==
    /\ market = [c \in {} |-> Unavailable]
    /\ fx_market = Unavailable
    /\ code_inputs = <<>>
    /\ start_input = 0
    /\ end_input = 0
    /\ monthly_amount_krw = 0
    /\ rate_cache = <<>>
    /\ sim_cache = <<>>
    /\ calls = {}
    /\ previous = NoRun
    /\ pc = "idle"
    /\ runs = 0
    /\ start_date = 0
    /\ end_date = 0
    /\ codes = <<>>
    /\ usd_krw_rate_series = EmptySeries
    /\ next_code = 0
    /\ dfs = <<>>
    /\ data = NoTable
    /\ cumulative_principal = EmptySeries
    /\ monthly_indices = <<>>
    /\ summary = <<>>
    /\ warnings = <<>>

\* no call of simulate_monthly_investment is being stepped through
SimIdle ==
    /\ code = <<>>
    /\ close = EmptySeries
    /\ monthly_amount = 0
    /\ rate_series = None
    /\ processed = 0
    /\ shares = R(0)
    /\ last_month = -1
    /\ cumulative = EmptySeries
    /\ ret = None

SimInit ==
    /\ MainIdle
    /\ code \in SimCodes
    /\ close \in AllClose
    /\ monthly_amount \in Amounts
    /\ rate_series \in RateSeriesChoices
    /\ processed = 0
    /\ shares = LoopStart(DOMAIN close).shares
    /\ last_month = LoopStart(DOMAIN close).last_month
    /\ cumulative = LoopStart(DOMAIN close).cumulative
    /\ ret = Running

CloseIndex == SortedSeq(DOMAIN close)

\* the date the loop handles next
CurrentDate == CloseIndex[processed + 1]

SimIterate ==
    /\ ret = Running
    /\ processed < Len(CloseIndex)
    /\ LET date == CurrentDate
           st == LoopBody([shares |-> shares, last_month |-> last_month,
                           cumulative |-> cumulative, raised |-> FALSE],
                          date, close[date], is_korean_stock(code), monthly_amount,
                          aligned_rate(rate_series, DOMAIN close))
       IN  /\ shares' = st.shares
           /\ last_month' = st.last_month
           /\ cumulative' = st.cumulative
           /\ ret' = IF st.raised THEN None ELSE ret
           /\ processed' = IF st.raised THEN processed ELSE processed + 1
    /\ UNCHANGED <<code, close, monthly_amount, rate_series>>
    /\ UNCHANGED <<envVars, inputVars, cacheVars, runVars>>

SimReturn ==
    /\ ret = Running
    /\ processed = Len(CloseIndex)
    /\ ret' = Trim(cumulative)
    /\ UNCHANGED <<code, close, monthly_amount, rate_series, processed, shares,
                   last_month, cumulative>>
    /\ UNCHANGED <<envVars, inputVars, cacheVars, runVars>>

SimNext == SimIterate \/ SimReturn

SpecSim == SimInit /\ [][SimNext]_vars

\* the simulation on provider data with artifacts: a close that is zero or
\* negative, a USD/KRW quote that is zero
ArtifactPrices == {-100, 0, 100}

ArtifactClose == UNION {[S -> ArtifactPrices] : S \in SUBSET Calendar}

\* USD/KRW series over the calendar whose quote is zero on the dates Z
ZeroQuoted(Z) == [d \in Calendar |-> IF d \in Z THEN 0 ELSE FxQuote(d)]

ArtifactRates ==
    {None, [d \in Calendar |-> FxQuote(d)], ZeroQuoted({CalendarSeq[1]}),
     ZeroQuoted({CalendarSeq[2], CalendarSeq[3]}), ZeroQuoted(Calendar)}

ArtifactInit ==
    /\ MainIdle
    /\ code \in SimCodes
    /\ close \in ArtifactClose
    /\ monthly_amount = 1000
    /\ rate_series \in ArtifactRates
    /\ processed = 0
    /\ shares = LoopStart(DOMAIN close).shares
    /\ last_month = LoopStart(DOMAIN close).last_month
    /\ cumulative = LoopStart(DOMAIN close).cumulative
    /\ ret = Running

SpecSimArtifacts == ArtifactInit /\ [][SimNext]_vars

\* --------------------------------------------------------- main block
DefaultCodes == <<QQQ, Samsung, AAPL>>

DefaultStart == 20220101

\* datetime.datetime.now() as a date: the default and the maximum of both date inputs
Today == 20231231

StartChoices == {DefaultStart, 20220201}

EndChoices == {20220131, Today}

\* what the provider may hold for one code: nothing (the lookup raises), or closes
\* on some of the trading dates
Listings ==
    {Unavailable, Listed({}), Listed({20220103, 20220104}), Listed({20220201}),
     Listed({20220104, 20230102}), Listed(Calendar)}

FxListings == {Unavailable, Listed(Calendar)}

Warning(kind, c) == [kind |-> kind, code |-> c]

Init ==
    /\ SimIdle
    /\ market \in [{DefaultCodes[j] : j \in 1..Len(DefaultCodes)} -> Listings]
    /\ fx_market \in FxListings
    /\ code_inputs = DefaultCodes
    /\ start_input = DefaultStart
    /\ end_input = Today
    /\ monthly_amount_krw = 500000
    /\ rate_cache = <<>>
    /\ sim_cache = <<>>
    /\ calls = {}
    /\ previous = NoRun
    /\ pc = "setup"
    /\ runs = 1
    /\ start_date = DefaultStart
    /\ end_date = Today
    /\ codes = <<>>
    /\ usd_krw_rate_series = EmptySeries
    /\ next_code = 1
    /\ dfs = <<>>
    /\ data = NoTable
    /\ cumulative_principal = EmptySeries
    /\ monthly_indices = <<>>
    /\ summary = <<>>
    /\ warnings = <<>>

\* from the date inputs to the cached call of get_usd_krw_rate
Setup ==
    /\ pc = "setup"
    /\ LET swap == start_input > end_input
           s == IF swap THEN end_input ELSE start_input
           e == IF swap THEN start_input ELSE end_input
           cs == SelectSeq(code_inputs, LAMBDA c : c # <<>>)
           key == <<s, e>>
           rates == IF key \in DOMAIN rate_cache THEN rate_cache[key]
                    ELSE get_usd_krw_rate(fx_market, s, e)
       IN  /\ start_date' = s
           /\ end_date' = e
           /\ codes' = cs
           /\ IF cs = <<>>
              THEN /\ pc' = "done"
                   /\ warnings' = IF swap THEN <<Warning("dates", <<>>)>> ELSE <<>>
                   /\ UNCHANGED <<usd_krw_rate_series, rate_cache>>
              ELSE /\ pc' = "simulate"
                   /\ usd_krw_rate_series' = rates
                   /\ rate_cache' = (key :> rates) @@ rate_cache
                   /\ warnings' = (IF swap THEN <<Warning("dates", <<>>)>> ELSE <<>>)
                                  \o (IF fx_market.ok THEN <<>> ELSE <<Warning("fx", <<>>)>>)
    /\ next_code' = 1
    /\ dfs' = <<>>
    /\ UNCHANGED <<simVars, envVars, inputVars, sim_cache, calls, previous, runs, data,
                   cumulative_principal, monthly_indices, summary>>

\* one round of `for c in codes`: the cached call and the collection of its result
SimulateOne ==
    /\ pc = "simulate"
    /\ next_code <= Len(codes)
    /\ LET c == codes[next_code]
           key == CacheKey(c, start_date, end_date, monthly_amount_krw, usd_krw_rate_series)
           series == IF key \in DOMAIN sim_cache THEN sim_cache[key]
                     ELSE simulate_monthly_investment(market[c], c, start_date, end_date,
                                                      monthly_amount_krw, usd_krw_rate_series)
       IN  /\ sim_cache' = (key :> series) @@ sim_cache
           /\ calls' = calls \cup
                  {[args |-> <<c, start_date, end_date, monthly_amount_krw, usd_krw_rate_series>>,
                    result |-> series]}
           /\ warnings' = IF series = None THEN Append(warnings, Warning("instrument", c))
                          ELSE warnings
           /\ dfs' = Collect(dfs, c, series)
    /\ next_code' = next_code + 1
    /\ UNCHANGED <<simVars, envVars, inputVars, rate_cache, previous, pc, runs, start_date,
                   end_date, codes, usd_krw_rate_series, data, cumulative_principal,
                   monthly_indices, summary>>

\* `if not dfs`: the notice and st.stop()
NoData ==
    /\ pc = "simulate"
    /\ next_code > Len(codes)
    /\ dfs = <<>>
    /\ warnings' = Append(warnings, Warning("no valid data", <<>>))
    /\ pc' = "stopped"
    /\ UNCHANGED <<simVars, envVars, inputVars, cacheVars, runs, start_date, end_date, codes,
                   usd_krw_rate_series, next_code, dfs, data, cumulative_principal,
                   monthly_indices, summary>>

\* the merged table and the principal series
AggregateAndPrincipal ==
    /\ pc = "simulate"
    /\ next_code > Len(codes)
    /\ dfs # <<>>
    /\ LET t == Aggregate(dfs)
           principal == PrincipalSeries(t.index, monthly_amount_krw)
       IN  /\ cumulative_principal' = principal
           /\ data' = WithPrincipal(t, principal)
    /\ pc' = "chart"
    /\ UNCHANGED <<simVars, envVars, inputVars, cacheVars, runs, start_date, end_date, codes,
                   usd_krw_rate_series, next_code, dfs, monthly_indices, summary, warnings>>

\* the frame dates and the chart; data.index[-1] raises IndexError on a table
\* without rows
Chart ==
    /\ pc = "chart"
    /\ IF data.index = {}
       THEN /\ pc' = "error"
            /\ UNCHANGED monthly_indices
       ELSE /\ pc' = "summary"
            /\ monthly_indices' = MonthlyIndices(data.index)
    /\ UNCHANGED <<simVars, envVars, inputVars, cacheVars, runs, start_date, end_date, codes,
                   usd_krw_rate_series, next_code, dfs, data, cumulative_principal, summary,
                   warnings>>

\* the call of display_final_summary_table
Summary ==
    /\ pc = "summary"
    /\ LET r == display_final_summary_table(data, cumulative_principal, monthly_amount_krw)
       IN  /\ summary' = r.rows
           /\ pc' = IF r.ok THEN "done" ELSE "error"
    /\ UNCHANGED <<simVars, envVars, inputVars, cacheVars, runs, start_date, end_date, codes,
                   usd_krw_rate_series, next_code, dfs, data, cumulative_principal,
                   monthly_indices, warnings>>

Finished == pc \in {"done", "stopped", "error"}

\* a widget change reruns the script from the top with what the last run showed
\* cleared; the caches stay
StartRun ==
    /\ Finished
    /\ runs < MaxRuns
    /\ runs' = runs + 1
    /\ pc' = "setup"
    /\ start_date' = start_input'
    /\ end_date' = end_input'
    /\ codes' = <<>>
    /\ usd_krw_rate_series' = EmptySeries
    /\ next_code' = 1
    /\ dfs' = <<>>
    /\ data' = NoTable
    /\ cumulative_principal' = EmptySeries
    /\ monthly_indices' = <<>>
    /\ summary' = <<>>
    /\ warnings' = <<>>
    /\ previous' = [pc |-> pc, codes |-> codes, start_date |-> start_date,
                    end_date |-> end_date, amount |-> monthly_amount_krw, data |-> data,
                    cumulative_principal |-> cumulative_principal, summary |-> summary,
                    warnings |-> warnings]
    /\ UNCHANGED <<simVars, envVars, rate_cache, sim_cache, calls>>

\* a code input is cleared, or set back to its default
EditCode(j) ==
    /\ code_inputs' = [code_inputs EXCEPT ![j] = IF @ = <<>> THEN DefaultCodes[j] ELSE <<>>]
    /\ UNCHANGED <<start_input, end_input, monthly_amount_krw>>
    /\ StartRun

EditAmount(a) ==
    /\ a # monthly_amount_krw
    /\ monthly_amount_krw' = a
    /\ UNCHANGED <<code_inputs, start_input, end_input>>
    /\ StartRun

EditStart(d) ==
    /\ d # start_input
    /\ start_input' = d
    /\ UNCHANGED <<code_inputs, end_input, monthly_amount_krw>>
    /\ StartRun

EditEnd(d) ==
    /\ d # end_input
    /\ end_input' = d
    /\ UNCHANGED <<code_inputs, start_input, monthly_amount_krw>>
    /\ StartRun

\* one of the reference-table checkboxes is toggled: same inputs, new run
ToggleCheckbox ==
    /\ UNCHANGED inputVars
    /\ StartRun

Next ==
    \/ Setup
    \/ SimulateOne
    \/ NoData
    \/ AggregateAndPrincipal
    \/ Chart
    \/ Summary
    \/ \E j \in 1..Len(DefaultCodes) : EditCode(j)
    \/ \E a \in Amounts : EditAmount(a)
    \/ \E d \in StartChoices : EditStart(d)
    \/ \E d \in EndChoices : EditEnd(d)
    \/ ToggleCheckbox

Spec == Init /\ [][Next]_vars

\* ---------------------------------------------------------------- C1
FirstOfCalendarMonth(d, S) == \A e \in S : e < d => YearMonth(e) # YearMonth(d)

\* C1: along the price series the shares held never decrease, and they increase
\* on a date exactly when it is the first date of its calendar month (year and
\* month) in the series.
C1_SharesGrowOnFirstOfCalendarMonth ==
    [][processed' = processed + 1 =>
          /\ RLe(shares, shares')
          /\ (RLt(shares, shares') <=> FirstOfCalendarMonth(CurrentDate, DOMAIN close))]_vars

\* ---------------------------------------------------------------- C2
\* the dates on which the loop bought: the first date of the series, and every
\* date whose month number differs from that of the date before it
PurchaseDates ==
    {d \in DOMAIN close :
        LET earlier == {e \in DOMAIN close : e < d}
        IN  \/ earlier = {}
            \/ Month(CHOOSE e \in earlier : \A q \in earlier : q <= e) # Month(d)}

Fx(d) == IF is_korean_stock(code) THEN 1 ELSE aligned_rate(rate_series, DOMAIN close)[d]

RECURSIVE SumBought(_)
SumBought(S) ==
    IF S = {} THEN R(0)
    ELSE LET p == CHOOSE x \in S : TRUE
         IN  RAdd(RDiv(R(monthly_amount), RMul(R(Fx(p)), R(close[p]))), SumBought(S \ {p}))

SharesHeldAt(d) == SumBought({p \in PurchaseDates : p <= d})

ExampleClose == (20220103 :> 100) @@ (20220104 :> 110) @@ (20220201 :> 120)

ExampleValues == (20220103 :> R(500000)) @@ (20220104 :> R(550000)) @@ (20220201 :> R(1100000))

\* C2: every value of the result is shares held * price * fx on its date, the
\* shares held being the sum of C / (fx * price) over the purchase dates so far;
\* the example series yields 500000, 550000 and 1100000.
C2_ValueIsSharesTimesPriceTimesFx ==
    ret # Running =>
        /\ \A d \in DOMAIN ret :
              ret[d] = RMul(RMul(SharesHeldAt(d), R(close[d])), R(Fx(d)))
        /\ (close = ExampleClose /\ is_korean_stock(code) /\ monthly_amount = 500000)
              => ret = ExampleValues

C2_Witness ==
    /\ ret # Running
    /\ close = ExampleClose
    /\ code = Samsung
    /\ monthly_amount = 500000
    /\ DOMAIN ret = DOMAIN close

\* ---------------------------------------------------------------- C3
MaxDate(S) == CHOOSE d \in S : \A e \in S : e <= d

\* the principal on the date before d in the index, 0 before the first date
PrincipalBefore(d) ==
    LET earlier == {e \in DOMAIN cumulative_principal : e < d}
    IN  IF earlier = {} THEN R(0) ELSE cumulative_principal[MaxDate(earlier)]

\* C3: over the table's date index the principal grows by exactly the monthly
\* amount on the first date of each calendar month of the index and stays as
\* it is on every other date; nothing but the index and the amount enters it.
C3_PrincipalStepsOnFirstOfCalendarMonth ==
    \A d \in DOMAIN cumulative_principal :
        RSub(cumulative_principal[d], PrincipalBefore(d)) =
            IF FirstOfCalendarMonth(d, DOMAIN cumulative_principal)
            THEN R(monthly_amount_krw) ELSE R(0)

\* ---------------------------------------------------------------- C4
Aggregated == pc \in {"chart", "summary", "done", "error"}

\* C4: the table's index is the union of the dates of the collected results; a
\* column holds on each date its own value or else its most recent earlier
\* value, and is absent (NaN, not zero) before its first value.
C4_UnionIndexForwardFilled ==
    Aggregated =>
        /\ data.index = UNION {DOMAIN dfs[j].s : j \in 1..Len(dfs)}
        /\ \A j \in 1..Len(dfs) : \A d \in data.index :
              LET own == dfs[j].s
                  sofar == {e \in DOMAIN own : e <= d}
              IN  data.at[dfs[j].name][d] =
                      IF sofar = {} THEN NaN ELSE own[MaxDate(sofar)]

\* one instrument with data only in January, another only in February
C4_Witness ==
    /\ pc = "done"
    /\ Len(dfs) = 2
    /\ DOMAIN dfs[1].s = {20220103, 20220104}
    /\ DOMAIN dfs[2].s = {20220201}
    /\ data.index = {20220103, 20220104, 20220201}
    /\ data.at[dfs[1].name][20220201] = dfs[1].s[20220104]
    /\ data.at[dfs[2].name][20220103] = NaN
    /\ data.at[dfs[2].name][20220104] = NaN

\* ---------------------------------------------------------------- C5
InstrumentRows == SelectSeq(summary, LAMBDA r : r.name \notin {PrincipalColumn, DepositRow})

\* C5: total principal is the principal on the last date; each instrument row
\* carries its column's last known value, profit_loss = value - principal and
\* return_rate = profit_loss / principal * 100 (0 when the principal is not
\* positive); a value equal to the principal gives profit 0 and rate 0.
C5_SummaryRows ==
    (pc = "done" /\ data.index # {}) =>
        LET total == cumulative_principal[MaxDate(data.index)]
        IN  /\ Names(InstrumentRows) = Names(dfs)
            /\ \A j \in 1..Len(InstrumentRows) :
                  LET r == InstrumentRows[j]
                  IN  /\ r.principal = total
                      /\ r.value = data.at[r.name][MaxDate(data.index)]
                      /\ RAdd(r.profit_loss, total) = r.value
                      /\ IF RLt(R(0), total)
                         THEN RMul(r.return_rate, total) = RMul(r.profit_loss, R(100))
                         ELSE r.return_rate = R(0)
                      /\ r.value = total =>
                            /\ r.profit_loss = R(0)
                            /\ r.return_rate = R(0)
                            /\ r.shown.profit_loss = R(0)
                            /\ r.shown.rate = R(0)

C5_Witness ==
    /\ pc = "done"
    /\ Len(InstrumentRows) >= 2
    /\ \E j \in 1..Len(InstrumentRows) :
          /\ InstrumentRows[j].value = cumulative_principal[MaxDate(data.index)]
          /\ InstrumentRows[j].return_rate = R(0)
    /\ \E j \in 1..Len(InstrumentRows) : RLt(R(0), InstrumentRows[j].profit_loss)

\* ---------------------------------------------------------------- C6
\* the requested codes whose lookup succeeds
Remaining(cs) == SelectSeq(cs, LAMBDA c : market[c].ok)

FailedCodes(cs) == {cs[j] : j \in 1..Len(cs)} \ {c \in DOMAIN market : market[c].ok}

WarnedCodes(w) == {w[j].code : j \in {i \in 1..Len(w) : w[i].kind = "instrument"}}

\* this run requests what the run before requested without its failing instruments
SameRequestWithoutFailures ==
    /\ previous.pc # "none"
    /\ FailedCodes(previous.codes) # {}
    /\ codes = Remaining(previous.codes)
    /\ start_date = previous.start_date
    /\ end_date = previous.end_date
    /\ monthly_amount_krw = previous.amount

\* C6: a failing instrument is skipped with a warning and the run goes on; the
\* table, the principal series and the summary are those of a run that requests
\* only the remaining instruments, wherever the failing one stood.
C6_FailureIsolated ==
    Finished =>
        /\ WarnedCodes(warnings) = FailedCodes(codes)
        /\ Names(dfs) = Remaining(codes)
        /\ SameRequestWithoutFailures =>
              /\ pc = previous.pc
              /\ data = previous.data
              /\ cumulative_principal = previous.cumulative_principal
              /\ summary = previous.summary

C6_Witness ==
    /\ pc = "done"
    /\ SameRequestWithoutFailures
    /\ Len(previous.codes) = 3
    /\ Len(codes) = 2
    /\ ~market[previous.codes[2]].ok
    /\ Len(summary) = 4
    /\ data.index # {}

\* ---------------------------------------------------------------- C7
\* C7: when every requested instrument fails or yields an empty series the run
\* ends with the "no valid data" notice, without chart and summary, and never
\* goes on with a table that has no rows.
C7_NoValidDataNotice ==
    (/\ pc \notin {"setup", "simulate"}
     /\ codes # <<>>
     /\ next_code > Len(codes)
     /\ \A j \in 1..Len(dfs) : DOMAIN dfs[j].s = {})
        => /\ pc = "stopped"
           /\ \E j \in 1..Len(warnings) : warnings[j].kind = "no valid data"
           /\ monthly_indices = <<>>
           /\ summary = <<>>

\* ---------------------------------------------------------------- C8
\* display_final_summary_table taken alone: tables of one or two instrument
\* columns, forward-filled and each holding a value, with any non-decreasing
\* principal series, a principal of zero included
SummaryIndexes == {{}, {20220103}, {20220103, 20220201}}

SummaryColumns == {<<Samsung>>, <<QQQ, Samsung>>}

CellValues(a) == {NaN, R(0), R(a), RMul(R(a), <<3, 2>>)}

FilledColumns(idx, a) ==
    {col \in [idx -> CellValues(a)] :
        /\ idx # {} => ValidDates(col) # {}
        /\ \A d, e \in idx : (d < e /\ col[e] = NaN) => col[d] = NaN}

PrincipalChoices(idx, a) ==
    {p \in [idx -> {R(0), R(a), R(2 * a)}] : \A d, e \in idx : d < e => RLe(p[d], p[e])}

SummaryInit ==
    /\ SimIdle
    /\ market = [c \in {} |-> Unavailable]
    /\ fx_market = Unavailable
    /\ code_inputs = <<>>
    /\ start_input = 0
    /\ end_input = 0
    /\ rate_cache = <<>>
    /\ sim_cache = <<>>
    /\ calls = {}
    /\ previous = NoRun
    /\ runs = 0
    /\ start_date = 0
    /\ end_date = 0
    /\ codes = <<>>
    /\ usd_krw_rate_series = EmptySeries
    /\ next_code = 0
    /\ dfs = <<>>
    /\ monthly_indices = <<>>
    /\ summary = <<>>
    /\ warnings = <<>>
    /\ pc = "summary"
    /\ monthly_amount_krw \in Amounts
    /\ \E idx \in SummaryIndexes, cols \in SummaryColumns :
          /\ cumulative_principal \in PrincipalChoices(idx, monthly_amount_krw)
          /\ \E at \in [{cols[j] : j \in 1..Len(cols)} -> FilledColumns(idx, monthly_amount_krw)] :
                data = WithPrincipal([index |-> idx, columns |-> cols, at |-> at],
                                     cumulative_principal)

SpecSummary == SummaryInit /\ [][Summary]_vars

\* C8: with a total principal of 0 the summary is computed without a failure
\* and every row has the return rate 0.
C8_ZeroPrincipalRateZero ==
    (/\ pc \in {"done", "error"}
     /\ data.index # {}
     /\ cumulative_principal[MaxDate(data.index)] = R(0))
        => /\ pc = "done"
           /\ Names(summary) = SelectSeq(data.columns, LAMBDA n : n # PrincipalColumn)
           /\ \A j \in 1..Len(summary) :
                 /\ summary[j].return_rate = R(0)
                 /\ summary[j].shown.rate = R(0)

C8_Witness ==
    /\ pc = "done"
    /\ data.index # {}
    /\ cumulative_principal[MaxDate(data.index)] = R(0)
    /\ Len(summary) = 2
    /\ RLt(R(0), summary[1].value)
    /\ RLt(R(0), summary[1].profit_loss)

\* ---------------------------------------------------------------- C9
DepositRows == SelectSeq(summary, LAMBDA r : r.name = DepositRow)

\* the contributions the principal series counts: the dates on which it grows
Contributions ==
    Cardinality({d \in DOMAIN cumulative_principal :
                    cumulative_principal[d] # PrincipalBefore(d)})

\* C9: the savings row counts n = total principal / monthly amount periods, n
\* being the number of contributions of the principal series, and its value is
\* n * m + m * (0.03 / 12) * n * (n - 1) / 2, whatever the prices and FX rates.
C9_SavingsRow ==
    (pc = "done" /\ data.index # {}) =>
        LET n == Contributions
            m == monthly_amount_krw
            total == cumulative_principal[MaxDate(data.index)]
        IN  /\ Len(DepositRows) = 1
            /\ total = R(n * m)
            /\ DepositRows[1].principal = total
            /\ DepositRows[1].value =
                  RAdd(R(n * m), RMul(RMul(R(m), <<1, 400>>), Norm(n * (n - 1), 2)))
            /\ DepositRows[1].profit_loss = RSub(DepositRows[1].value, total)

C9_Witness ==
    /\ pc = "done"
    /\ Contributions = 3
    /\ monthly_amount_krw = 500000
    /\ DepositRows[1].value = R(1503750)

\* --------------------------------------------------------------- C10
\* what simulate_monthly_investment computes for the arguments of a call
Fresh(args) ==
    simulate_monthly_investment(market[args[1]], args[1], args[2], args[3], args[4], args[5])

\* C10: calls with the same code, dates, amount and FX series return the same
\* result, and every call returns the result of its own arguments, never one
\* computed for other arguments.
C10_CacheKeyedOnAllInputs ==
    /\ \A x \in calls : x.result = Fresh(x.args)
    /\ \A x, y \in calls : x.args = y.args => x.result = y.result

\* a run with the inputs of the run before it: its calls are served by the cache
C10_Witness ==
    /\ runs = 2
    /\ pc = "done"
    /\ previous.pc = "done"
    /\ previous.codes = codes
    /\ previous.amount = monthly_amount_krw
    /\ previous.start_date = start_date
    /\ previous.end_date = end_date
    /\ Cardinality(calls) = 3
    /\ data = previous.data

\* --------------------------------------------------------------- C11
\* the value of the shares held before the loop handles the current date, at
\* that date's price and rate
MarkToMarket ==
    IF is_korean_stock(code) THEN FMul(shares, R(close[CurrentDate]))
    ELSE FMul(FMul(shares, R(close[CurrentDate])),
              R(aligned_rate(rate_series, DOMAIN close)[CurrentDate]))

\* C11: on a date whose closing price is <= 0 the loop buys nothing (shares and
\* the invested month stay as they are) and records for that date the value of
\* the shares already held.
C11_NoPurchaseAtNonPositivePrice ==
    [][(/\ ret = Running
        /\ processed < Len(CloseIndex)
        /\ close[CurrentDate] <= 0)
          => /\ processed' = processed + 1
             /\ ret' = Running
             /\ shares' = shares
             /\ last_month' = last_month
             /\ cumulative'[CurrentDate] = MarkToMarket]_vars

\* --------------------------------------------------------------- C12
\* the rate the FX series gives for a date: its value on the date, else its
\* value on the latest FX date before it, else the default
RateFor(d) ==
    IF rate_series = None THEN default_rate
    ELSE IF d \in DOMAIN rate_series THEN rate_series[d]
    ELSE LET before == {r \in DOMAIN rate_series : r < d}
         IN  IF before = {} THEN default_rate ELSE rate_series[MaxDate(before)]

\* C12: for a foreign instrument every loop step on a date d adds either nothing
\* or amount / RateFor(d) / price to the shares, and records the value
\* shares * price * RateFor(d): one rate converts the contribution and values
\* the position.
C12_RateForwardFilledOrDefault ==
    [][(processed' = processed + 1 /\ ~is_korean_stock(code)) =>
          LET d == CurrentDate
              bought == RDiv(RDiv(R(monthly_amount), R(RateFor(d))), R(close[d]))
          IN  /\ shares' \in {shares, RAdd(shares, bought)}
              /\ processed = 0 => shares' = bought
              /\ cumulative'[d] = RMul(RMul(shares', R(close[d])), R(RateFor(d)))]_vars

\* a USD/KRW series with the single date 2022-01-04: the purchase of 2022-01-03
\* is converted at the default 1300, 2022-01-04 is valued at its own quote 1250
\* and the purchase of 2022-02-01 is converted at the quote of 2022-01-04
C12_Witness ==
    /\ code = QQQ
    /\ monthly_amount = 1000
    /\ rate_series # None
    /\ DOMAIN rate_series = {20220104}
    /\ close = (20220103 :> 100) @@ (20220104 :> 110) @@ (20220201 :> 120)
    /\ ret = (20220103 :> R(1000)) @@ (20220104 :> <<13750, 13>>)
                @@ (20220201 :> <<28000, 13>>)

\* --------------------------------------------------------------- C13
\* the FX series with the default in the place of its zero quotes
ZeroReplaced(rates) ==
    [d \in DOMAIN rates |-> IF rates[d] = 0 THEN default_rate ELSE rates[d]]

\* C13: when the rate of some price date is zero, a foreign instrument with
\* positive prices still gets a result, its values are finite, and they are the
\* values computed with the default rate on the dates of the zero quotes.
C13_ZeroRateFallsBackToDefault ==
    (/\ ret # Running
     /\ ~is_korean_stock(code)
     /\ rate_series # None
     /\ \A d \in DOMAIN close : close[d] > 0
     /\ \E d \in DOMAIN close : aligned_rate(rate_series, DOMAIN close)[d] = 0)
        => /\ ret # None
           /\ \A d \in DOMAIN ret : Finite(ret[d])
           /\ ret = SimulateSeries(code, close, monthly_amount, ZeroReplaced(rate_series))

\* --------------------------------------------------------------- C14
\* the dates on which the loop made a purchase: those on which its month test
\* held when it reached them
ContributionDates ==
    {CloseIndex[k] : k \in {j \in 1..Len(CloseIndex) :
        NewMonth(Month(CloseIndex[j]),
                 LoopUpTo(close, CloseIndex, j - 1, is_korean_stock(code), monthly_amount,
                          aligned_rate(rate_series, DOMAIN close)).last_month)}}

\* C14: the result holds the value of every date of the price series from the
\* first purchase on, and of no earlier date: the trimming removes no date after
\* the first purchase.  (A Series is a function of its dates, so it holds one
\* entry per date, in date order.)  Stated for the runs whose purchases were
\* all made at a positive price.
C14_ResultFromFirstContributionOn ==
    (/\ ret # Running
     /\ ret # None
     /\ \A p \in ContributionDates : close[p] > 0) =>
        /\ DOMAIN ret = {d \in DOMAIN close : \E p \in ContributionDates : p <= d}
        /\ \A d \in DOMAIN ret : ret[d] = cumulative[d]

\* --------------------------------------------------------------- C15
\* the closes the simulation of this run read for an instrument
CloseOf(c) == DataReader(market[c], start_date, end_date)

\* the dates on which simulate_monthly_investment bought the instrument
PurchasesOf(c) ==
    LET cl == CloseOf(c)
        order == SortedSeq(DOMAIN cl)
    IN  {order[k] : k \in {j \in 1..Len(order) :
            LoopUpTo(cl, order, j, is_korean_stock(c), monthly_amount_krw,
                     aligned_rate(usd_krw_rate_series, DOMAIN cl)).shares
            # LoopUpTo(cl, order, j - 1, is_korean_stock(c), monthly_amount_krw,
                       aligned_rate(usd_krw_rate_series, DOMAIN cl)).shares}}

\* C15: on every date of the table the principal is the monthly amount times the
\* number of purchases the simulation has made up to that date, for each
\* instrument of the table that has a result.
C15_PrincipalIsAmountInvested ==
    Aggregated =>
        \A j \in {i \in 1..Len(dfs) : DOMAIN dfs[i].s # {}} : \A d \in data.index :
            cumulative_principal[d] =
                R(monthly_amount_krw
                  * Cardinality({p \in PurchasesOf(dfs[j].name) : p <= d}))

====
